---- MODULE Spec2Model ----
(***************************************************************************)
(* Loyalty-lens ETL: extract (pd.read_csv) -> transform (cleaning, fact    *)
(* table, loyalty engine, RFM scoring, segmentation, to_csv) -> load       *)
(* (MySQL).  Tables are sequences of rows; a row is a function from column *)
(* names to cell values.  Amounts, points and day numbers are integers;    *)
(* pandas' float quantile arithmetic is carried out exactly, scaled by 3.  *)
(* Pass-through columns that no computation reads are left out.            *)
(***************************************************************************)
EXTENDS Integers, Sequences, FiniteSets, TLC

VARIABLES pc, csv, data, tr, first, files, db, runs, io_faults, err

vars == <<pc, csv, data, tr, first, files, db, runs, io_faults, err>>

(***************************** bounds **************************************)
MaxTxn == 3
MaxItems == 2
MaxRules == 2
MaxSegRules == 2
MaxRuns == 2

(***************************** cell values *********************************)
\* np.nan in a numeric column (a value outside every modelled amount).
NaN == -999

\* Python's bool objects, as read_csv stores them in an inferred bool column.
PyTrue == "<bool True>"
PyFalse == "<bool False>"

\* A date cell: the text read from the CSV, a parsed Timestamp, or NaT.
NaT == [kind |-> "NaT"]
Ts(d) == [kind |-> "ts", day |-> d]
Str(s) == [kind |-> "str", text |-> s]

\* The day number of each parsable date text.
DateOf == ("2024-01-01" :> 1) @@ ("2024-01-02" :> 2) @@ ("2024-01-03" :> 3)

(***************************** helpers *************************************)
Range(s) == {s[i] : i \in DOMAIN s}

Abs(x) == IF x < 0 THEN -x ELSE x

RECURSIVE SeqSum(_)
SeqSum(s) == IF s = <<>> THEN 0 ELSE Head(s) + SeqSum(Tail(s))

RECURSIVE Flatten(_)
Flatten(ss) == IF ss = <<>> THEN <<>> ELSE Head(ss) \o Flatten(Tail(ss))

RECURSIVE SortedSeq(_)
SortedSeq(S) ==
    IF S = {} THEN <<>>
    ELSE LET m == CHOOSE x \in S : \A y \in S : x <= y
         IN <<m>> \o SortedSeq(S \ {m})

Column(t, c) == [i \in DOMAIN t |-> t[i][c]]

(***************************** extract.py **********************************)
\* pd.read_csv infers a bool column when every cell is TRUE or FALSE; any
\* other token leaves the whole column as strings.
BoolTokens == {"TRUE", "FALSE"}

InferBoolColumn(t, c) ==
    IF t # <<>> /\ \A i \in DOMAIN t : t[i][c] \in BoolTokens
    THEN [i \in DOMAIN t |->
            [t[i] EXCEPT ![c] = IF @ = "TRUE" THEN PyTrue ELSE PyFalse]]
    ELSE t

\* extract_raw_data: one DataFrame per CSV file.  Date columns stay text
\* (no parse_dates); integer cells are read as the integers they spell.
ReadCsv(f) == [f EXCEPT !.loyalty_rules = InferBoolColumn(@, "is_active")]

(***************************** transform: cleaning *************************)
\* DataFrame.rename(columns=m, inplace=True): keys that are no column are
\* ignored.
RenameCols(row, m) ==
    [c \in (DOMAIN row \ DOMAIN m) \cup {m[k] : k \in DOMAIN m \cap DOMAIN row} |->
        IF c \in DOMAIN row \ DOMAIN m THEN row[c]
        ELSE row[CHOOSE k \in DOMAIN m \cap DOMAIN row : m[k] = c]]

RenameTable(t, m) == [i \in DOMAIN t |-> RenameCols(t[i], m)]

\* pd.to_datetime(x, errors="coerce"): text that is no date becomes NaT; a
\* value that is already a Timestamp or NaT is returned as it is.
\* A conversion that accepts text only: an already parsed value becomes NaT.
ToDatetimeText(v) ==
    IF v.kind = "str" /\ v.text \in DOMAIN DateOf THEN Ts(DateOf[v.text]) ELSE NaT

ToDatetime(v) ==
    IF v.kind = "str"
    THEN IF v.text \in DOMAIN DateOf THEN Ts(DateOf[v.text]) ELSE NaT
    ELSE v

ParseDates(t, c) == [i \in DOMAIN t |-> [t[i] EXCEPT ![c] = ToDatetime(@)]]

\* products.loc[unit_price < 0, unit_price] = nan; current_stock < 0 -> 0.
CleanProducts(t) ==
    [i \in DOMAIN t |->
        [t[i] EXCEPT !.unit_price = IF @ # NaN /\ @ < 0 THEN NaN ELSE @,
                     !.current_stock = IF @ # NaN /\ @ < 0 THEN 0 ELSE @]]

\* sales_header[sales_header["total_amount"] >= 0]
\* The headers without the filter on total_amount.
KeepHeader(sh) == sh

CleanHeader(sh) ==
    SelectSeq(sh, LAMBDA r : r.total_amount # NaN /\ r.total_amount >= 0)

\* quantity > 0, then product_id in products, then transaction_id in the
\* already filtered headers.
QuantityFilter(li) == SelectSeq(li, LAMBDA r : r.quantity > 0)

ProductFilter(li, products) ==
    SelectSeq(li, LAMBDA r : r.product_id \in Range(Column(products, "product_id")))

OrphanFilter(li, sh) ==
    SelectSeq(li, LAMBDA r : r.transaction_id \in Range(Column(sh, "transaction_id")))

CleanLineItems(li, products, sh) ==
    OrphanFilter(ProductFilter(QuantityFilter(li), products), sh)

(***************************** transform: fact table ***********************)
Joined(row, matches) == [j \in DOMAIN matches |-> row @@ matches[j]]

\* left.merge(right, on=key, how="inner"): left order, one row per match.
InnerMerge(left, right, key) ==
    Flatten([i \in DOMAIN left |->
        Joined(left[i], SelectSeq(right, LAMBDA r : r[key] = left[i][key]))])

JoinedOrNull(row, matches, nulls) ==
    IF matches = <<>> THEN <<row @@ nulls>> ELSE Joined(row, matches)

\* how="left": a left row without a match keeps nulls in the right columns.
LeftMerge(left, right, key, nulls) ==
    Flatten([i \in DOMAIN left |->
        JoinedOrNull(left[i], SelectSeq(right, LAMBDA r : r[key] = left[i][key]), nulls)])

ProductNulls == [unit_price |-> NaN, current_stock |-> NaN]
PromotionNulls == [discount_percent |-> NaN, start_date |-> NaT, end_date |-> NaT]

FactSales(li, sh, products, promotions) ==
    LeftMerge(LeftMerge(InnerMerge(li, sh, "transaction_id"),
                        products, "product_id", ProductNulls),
              promotions, "promotion_id", PromotionNulls)

(***************************** transform: loyalty engine *******************)
\* Series.astype(int) truncates toward zero.
TruncDiv(a, b) ==
    IF (a < 0) # (b < 0) THEN -(Abs(a) \div Abs(b)) ELSE Abs(a) \div Abs(b)

\* loyalty_rules[loyalty_rules["is_active"] == "TRUE"]: a comparison with the
\* string; a bool cell never equals it.
ActiveRules(rules) == SelectSeq(rules, LAMBDA r : r.is_active = "TRUE")

\* The rows the rule's condition selects.
Qualifies(row, rule) == row.total_amount >= rule.min_spend_threshold

RulePoints(rule, total) ==
    TruncDiv(total, rule.min_spend_threshold) * rule.points_per_unit_spend
        + rule.bonus_points

\* total_amount / 0 is inf or nan, and astype(int) raises ValueError on a
\* non-finite value; with no selected row there is nothing to convert.
RuleRaises(sh, rule) ==
    /\ rule.min_spend_threshold = 0
    /\ \E i \in DOMAIN sh : Qualifies(sh[i], rule)

ApplyRule(sh, rule) ==
    [i \in DOMAIN sh |->
        IF Qualifies(sh[i], rule)
        THEN [sh[i] EXCEPT !.earned_points = @ + RulePoints(rule, sh[i].total_amount)]
        ELSE sh[i]]

RECURSIVE ApplyRules(_, _)
ApplyRules(sh, rules) ==
    IF rules = <<>> THEN sh
    ELSE ApplyRules(ApplyRule(sh, Head(rules)), Tail(rules))

LoyaltyRaises(sh, rules) ==
    \E k \in DOMAIN rules : rules[k].is_active = "TRUE" /\ RuleRaises(sh, rules[k])

\* sales_header["earned_points"] = 0, then the loop over the active rules.
LoyaltyEngine(sh, rules) ==
    ApplyRules([i \in DOMAIN sh |-> sh[i] @@ [earned_points |-> 0]],
               ActiveRules(rules))

\* groupby("customer_id")["earned_points"].sum(): no row for a customer
\* without transactions, so the left merge gives NaN.
GroupSum(rows, c) == IF rows = <<>> THEN NaN ELSE SeqSum(Column(rows, c))

PointsOf(sh, cid) ==
    GroupSum(SelectSeq(sh, LAMBDA r : r.customer_id = cid), "earned_points")

\* customers["earned_points"].fillna(0, inplace=True)
FillNa(v, fill) == IF v = NaN THEN fill ELSE v

\* customers["total_loyalty_points"] = customers["earned_points"]
WithPoints(c, earned) ==
    [(c @@ [earned_points |-> earned]) EXCEPT !.total_loyalty_points = earned]

CustomerPoints(customers, sh) ==
    [i \in DOMAIN customers |->
        WithPoints(customers[i], FillNa(PointsOf(sh, customers[i].customer_id), 0))]

(***************************** transform: RFM ******************************)
\* sales_header["transaction_date"].max() + 1 day; max skips NaT.
ValidDays(sh) ==
    {sh[i].transaction_date.day : i \in {j \in DOMAIN sh : sh[j].transaction_date.kind = "ts"}}

SetMax(S) == CHOOSE x \in S : \A y \in S : y <= x

SnapshotDate(sh) == IF ValidDays(sh) = {} THEN NaT ELSE Ts(SetMax(ValidDays(sh)) + 1)

\* (snapshot_date - x.max()).days: NaT.days is nan.
Recency(mine, snapshot) ==
    IF ValidDays(mine) = {} \/ snapshot.kind # "ts" THEN NaN
    ELSE snapshot.day - SetMax(ValidDays(mine))

RfmRow(cid, mine, snapshot) ==
    [customer_id |-> cid,
     recency |-> Recency(mine, snapshot),
     frequency |-> Len(mine),
     monetary |-> SeqSum(Column(mine, "total_amount"))]

RfmRows(sh, ids, snapshot) ==
    [k \in DOMAIN ids |->
        RfmRow(ids[k], SelectSeq(sh, LAMBDA r : r.customer_id = ids[k]), snapshot)]

\* groupby sorts by customer_id: one row per customer with a transaction.
RfmMetrics(sh) ==
    RfmRows(sh, SortedSeq(Range(Column(sh, "customer_id"))), SnapshotDate(sh))

\* Series.rank(method="first"): ties take the order of the rows.
RankFirst(vals) ==
    [i \in DOMAIN vals |->
        1 + Cardinality({j \in DOMAIN vals : vals[j] < vals[i]})
          + Cardinality({j \in DOMAIN vals : j < i /\ vals[j] = vals[i]})]

\* The j-th smallest value, j counted from 0.
OrderStat(vals, j) ==
    CHOOSE x \in Range(vals) :
        /\ Cardinality({i \in DOMAIN vals : vals[i] < x}) <= j
        /\ j < Cardinality({i \in DOMAIN vals : vals[i] <= x})

Sorted(vals) == [j \in DOMAIN vals |-> OrderStat(vals, j - 1)]

Lerp3(lo, hi, r) == 3 * lo + (hi - lo) * r

\* 3 * (the quantile at virtual index pos/3, linear interpolation) of a
\* sorted non-empty sequence.
Interpolate(sorted, pos) ==
    Lerp3(sorted[pos \div 3 + 1],
          sorted[IF pos \div 3 + 2 <= Len(sorted) THEN pos \div 3 + 2 ELSE pos \div 3 + 1],
          pos % 3)

\* The four bin edges (times 3): the quantiles 0, 1/3, 2/3, 1 of the values
\* present; nan for an empty or all-NaN population.
Edges(sorted) ==
    IF sorted = <<>> THEN [k \in 0..3 |-> NaN]
    ELSE [k \in 0..3 |-> Interpolate(sorted, (Len(sorted) - 1) * k)]

DropNa(vals) == SelectSeq(vals, LAMBDA v : v # NaN)

QcutEdges(vals) == Edges(Sorted(DropNa(vals)))

\* duplicates="raise": ValueError("Bin edges must be unique").
QcutRaises(edges) == \E k \in 0..2 : edges[k] = edges[k + 1]

\* searchsorted(side="left") with include_lowest: bin 1 up to the first cut
\* point, bin 2 up to the second, bin 3 above; NaN stays NaN.
QcutBin(edges, x) ==
    1 + (IF 3 * x > edges[1] THEN 1 ELSE 0) + (IF 3 * x > edges[2] THEN 1 ELSE 0)

Labelled(edges, labels, x) == IF x = NaN THEN NaN ELSE labels[QcutBin(edges, x)]

\* pd.qcut(vals, 3, labels): every value against the population's edges.
Qcut(vals, labels, edges) == [i \in DOMAIN vals |-> Labelled(edges, labels, vals[i])]

\* The labels of R in ascending order, as a slip would write them.
RLabelsAscending == <<1, 2, 3>>

RLabels == <<3, 2, 1>>
FLabels == <<1, 2, 3>>
MLabels == <<1, 2, 3>>

\* The cut points of the three qcut calls, from the whole population.
RfmEdges(m) ==
    [R |-> QcutEdges(Column(m, "recency")),
     F |-> QcutEdges(RankFirst(Column(m, "frequency"))),
     M |-> QcutEdges(Column(m, "monetary"))]

RfmRaises(e) == QcutRaises(e.R) \/ QcutRaises(e.F) \/ QcutRaises(e.M)

\* rfm[["R","F","M"]].sum(axis=1).astype(int): the sum skips NaN.
RfmScore(r, f, m) == FillNa(r, 0) + FillNa(f, 0) + FillNa(m, 0)

(***************************** transform: segmentation *********************)
\* The last matching rule instead of the first, as a slip would take it.
LastSegment(rule) ==
    IF rule # <<>> THEN rule[Len(rule)].segment_name ELSE "Unclassified"

FirstSegment(rule) ==
    IF rule # <<>> THEN rule[1].segment_name ELSE "Unclassified"

\* segment_customer: the first row of the filtered rule table.
SegmentCustomer(rules, score) ==
    FirstSegment(SelectSeq(rules, LAMBDA r : r.rfm_score_min <= score /\ r.rfm_score_max >= score))

Segmented(row, rules, score) ==
    row @@ [RFM_Score |-> score, segment |-> SegmentCustomer(rules, score)]

Scored(m, rules, R, F, M) ==
    [i \in DOMAIN m |->
        Segmented(m[i] @@ [R |-> R[i], F |-> F[i], M |-> M[i]], rules,
                  RfmScore(R[i], F[i], M[i]))]

RfmScores(m, rules, e) ==
    Scored(m, rules,
           Qcut(Column(m, "recency"), RLabels, e.R),
           Qcut(RankFirst(Column(m, "frequency")), FLabels, e.F),
           Qcut(Column(m, "monetary"), MLabels, e.M))

RfmNulls ==
    [recency |-> NaN, frequency |-> NaN, monetary |-> NaN, R |-> NaN, F |-> NaN,
     M |-> NaN, RFM_Score |-> NaN, segment |-> "nan"]

(***************************** transform ***********************************)
CustomerRenames == ("fist_name" :> "full_name") @@ ("customer_phone" :> "phone")
ProductRenames == ("current_stock_level" :> "current_stock")
StoreRenames == ("store_city" :> "city")
PromotionRenames == ("discount_percentage" :> "discount_percent")

ErrNonFinite == "ValueError: cannot convert non-finite values to integer"
ErrBinEdges == "ValueError: Bin edges must be unique"
ErrWrite == "OSError"
ErrDatabase == "SQLAlchemyError"

NoRet == [none |-> TRUE]
NotRun == [status |-> "not_run"]

\* DATA CLEANING, in place: the dict `data` as the renames, the date parsing
\* and the clamping leave it.  The filters rebind local names only.
Cleaned(d) ==
    [d EXCEPT
        !.customers = ParseDates(RenameTable(@, CustomerRenames), "last_purchase_date"),
        !.products = CleanProducts(RenameTable(@, ProductRenames)),
        !.stores = RenameTable(@, StoreRenames),
        !.promotions = ParseDates(ParseDates(RenameTable(@, PromotionRenames),
                                             "start_date"), "end_date"),
        !.sales_header = ParseDates(@, "transaction_date")]

\* Whether the dict was cleaned by an earlier call already.
AlreadyCleaned(d) == \A i \in DOMAIN d.products : "current_stock" \in DOMAIN d.products[i]

Raised(d, m, error, sh, rfm) ==
    [status |-> "raised", error |-> error, data |-> m, reapplied |-> AlreadyCleaned(d),
     sales_header |-> sh, rfm |-> rfm, ret |-> NoRet]

\* The dict transform returns.
Returned(m, header, customers2, rfm) ==
    [customers |-> customers2,
     products |-> m.products,
     stores |-> m.stores,
     promotions |-> m.promotions,
     fact_sales |-> FactSales(CleanLineItems(m.sales_line_items, m.products, header),
                              header, m.products, m.promotions),
     customer_loyalty_segments |-> LeftMerge(customers2, rfm, "customer_id", RfmNulls)]

Completed(d, m, header, sh, customers2, rfm) ==
    [status |-> "ok", error |-> "none", data |-> m, reapplied |-> AlreadyCleaned(d),
     sales_header |-> sh, rfm |-> rfm, ret |-> Returned(m, header, customers2, rfm)]

Segmentation(d, m, header, sh, metrics, edges) ==
    IF RfmRaises(edges) THEN Raised(d, m, ErrBinEdges, sh, metrics)
    ELSE Completed(d, m, header, sh, CustomerPoints(m.customers, sh),
                   RfmScores(metrics, m.rfm_rules, edges))

Scoring(d, m, header, sh, metrics) ==
    Segmentation(d, m, header, sh, metrics, RfmEdges(metrics))

Analytics(d, m, header, sh) == Scoring(d, m, header, sh, RfmMetrics(sh))

Engine(d, m, header) ==
    IF LoyaltyRaises(header, m.loyalty_rules) THEN Raised(d, m, ErrNonFinite, header, <<>>)
    ELSE Analytics(d, m, header, LoyaltyEngine(header, m.loyalty_rules))

Filtered(d, m) == Engine(d, m, CleanHeader(m.sales_header))

\* transform(data) up to the SAVE OUTPUT section: the cleaned dict, the local
\* sales_header and rfm frames, and the dict it is about to return.  An
\* exception leaves the function at the statement that raises it.
Transform(d) == Filtered(d, Cleaned(d))

\* The files of the SAVE OUTPUT section, in the order they are written.
OutputFiles ==
    <<"customers_cleaned.csv", "products_cleaned.csv", "stores_cleaned.csv",
      "promotions_cleaned.csv", "fact_sales.csv", "customer_loyalty_segments.csv">>

\* The tables load_data_to_mysql fills, in order: five from processed files,
\* two from the raw rule files.
DbTables ==
    <<"dim_customer", "dim_product", "dim_store", "dim_promotion", "fact_sales",
      "dim_loyalty_rules", "dim_rfm_rules">>

IndexOf(seq, x) == CHOOSE i \in DOMAIN seq : seq[i] = x

(***************************** actions *************************************)
\* extract_raw_data()
Extract ==
    /\ pc = "start"
    /\ data' = ReadCsv(csv)
    /\ pc' = "extracted"
    /\ UNCHANGED <<csv, tr, first, files, db, runs, io_faults, err>>

\* What the caller and the properties below see of one call of transform.
Locals(t) ==
    [status |-> t.status, error |-> t.error, reapplied |-> t.reapplied,
     sales_header |-> t.sales_header, rfm |-> t.rfm, ret |-> t.ret]

WriteFailed(t) ==
    [Locals(t) EXCEPT !.status = "raised", !.error = ErrWrite, !.ret = NoRet]

Written(k, r) ==
    [n \in Range(OutputFiles) |-> IF IndexOf(OutputFiles, n) <= k THEN r ELSE files[n]]

\* The outcome of call number r of transform: an exception of the
\* computation, or the six to_csv calls.  A write can fail only in a faulty
\* environment; the k files written before it stay on disk.
Outcome(r, t) ==
    /\ data' = t.data
    /\ IF t.status = "raised"
       THEN /\ tr' = Locals(t)
            /\ err' = t.error
            /\ pc' = "failed"
            /\ UNCHANGED <<files, first>>
       ELSE \E k \in (IF io_faults THEN 0..Len(OutputFiles) ELSE {Len(OutputFiles)}) :
            /\ files' = Written(k, r)
            /\ IF k = Len(OutputFiles)
               THEN /\ tr' = Locals(t)
                    /\ err' = "none"
                    /\ pc' = "transformed"
                    /\ first' = IF first = NoRet THEN t.ret ELSE first
               ELSE /\ tr' = WriteFailed(t)
                    /\ err' = ErrWrite
                    /\ pc' = "failed"
                    /\ UNCHANGED first

TransformCall(r) == Outcome(r, Transform(data))

TransformStep ==
    /\ pc = "extracted"
    /\ TransformCall(runs)
    /\ UNCHANGED <<csv, db, runs, io_faults>>

\* load_to_db(): create_database_if_not_exists, create_tables (DROP then
\* CREATE, DDL commits at once), load_data_to_mysql (one to_sql per table,
\* no enclosing transaction).  Every failure is caught and returns False.
\* A to_sql failure comes after k tables were filled.
LoadFailPoints ==
    IF io_faults THEN {"none", "create_database", "create_tables", "to_sql"}
    ELSE {"none"}

Load ==
    /\ pc = "transformed"
    /\ \E fp \in LoadFailPoints : \E k \in 0..(Len(DbTables) - 1) :
        /\ fp = "to_sql" \/ k = 0
        /\ db' = CASE fp = "none" -> [t \in Range(DbTables) |-> "loaded"]
                   [] fp = "create_database" -> db
                   [] fp = "create_tables" -> [t \in Range(DbTables) |-> "absent"]
                   [] fp = "to_sql" ->
                        [t \in Range(DbTables) |->
                            IF IndexOf(DbTables, t) <= k THEN "loaded" ELSE "empty"]
        /\ pc' = IF fp = "none" THEN "done" ELSE "failed"
        /\ err' = IF fp = "none" THEN "none" ELSE ErrDatabase
    /\ UNCHANGED <<csv, data, tr, first, files, runs, io_faults>>

\* The pipeline is started again on the same CSV files (a new process).
RunAgain ==
    /\ pc \in {"done", "failed"}
    /\ runs < MaxRuns
    /\ runs' = runs + 1
    /\ pc' = "start"
    /\ err' = "none"
    /\ UNCHANGED <<csv, data, tr, first, files, db, io_faults>>

\* transform is called again on the dict it has already cleaned in place.
TransformAgain ==
    /\ pc = "done"
    /\ runs < MaxRuns
    /\ runs' = runs + 1
    /\ TransformCall(runs + 1)
    /\ UNCHANGED <<csv, db, io_faults>>

Next == Extract \/ TransformStep \/ Load \/ RunAgain \/ TransformAgain

NextOnce == Extract \/ TransformStep \/ Load

(***************************** inputs **************************************)
Customers == {1, 2, 3}

CustomersCsv ==
    <<[customer_id |-> 1, fist_name |-> "Asha", total_loyalty_points |-> 7,
       last_purchase_date |-> Str("2024-01-01"), customer_phone |-> "111"],
      [customer_id |-> 2, fist_name |-> "Ben", total_loyalty_points |-> 7,
       last_purchase_date |-> Str("not-a-date"), customer_phone |-> "222"],
      [customer_id |-> 3, fist_name |-> "Chi", total_loyalty_points |-> 7,
       last_purchase_date |-> Str(""), customer_phone |-> "333"]>>

StoresCsv == <<[store_id |-> 1, store_city |-> "Pune"]>>

PromotionsCsv ==
    <<[promotion_id |-> 1, discount_percentage |-> 10,
       start_date |-> Str("2024-01-01"), end_date |-> Str("not-a-date")]>>

ProductRow(price, stock) ==
    [product_id |-> 1, unit_price |-> price, current_stock_level |-> stock]

HeaderRow(id, c, d, a) ==
    [transaction_id |-> id, customer_id |-> c, transaction_date |-> Str(d),
     total_amount |-> a]

ItemRow(id, t, p, promo, q) ==
    [line_item_id |-> id, transaction_id |-> t, product_id |-> p,
     promotion_id |-> promo, quantity |-> q]

LoyaltyRule(id, thr, ppu, bonus, active) ==
    [rule_id |-> id, min_spend_threshold |-> thr, points_per_unit_spend |-> ppu,
     bonus_points |-> bonus, is_active |-> active]

RfmRule(lo, hi, name) ==
    [rfm_score_min |-> lo, rfm_score_max |-> hi, segment_name |-> name]

\* The customers of a transaction table of len rows, the rows grouped by
\* customer (groupby sorts by customer_id in any case).
Grouped(len) ==
    {c \in [1..len -> Customers] : \A i \in 1..(len - 1) : c[i] <= c[i + 1]}

\* The (date text, amount) cells of the rows, drawn from the sequence cells;
\* one customer's rows come in the order of cells (count, sum and max do not
\* depend on it).
CellChoices(c, cells) ==
    {x \in [DOMAIN c -> DOMAIN cells] :
        \A i \in 1..(Len(c) - 1) : c[i] = c[i + 1] => x[i] <= x[i + 1]}

\* transaction_id = row number.
HeaderTable(c, x, cells) ==
    [i \in DOMAIN c |-> HeaderRow(i, c[i], cells[x[i]][1], cells[x[i]][2])]

SeqsUpTo(S, n) == UNION {[1..len -> S] : len \in 0..n}

DefaultHeader ==
    <<HeaderRow(1, 1, "2024-01-01", 10), HeaderRow(2, 2, "2024-01-02", 20),
      HeaderRow(3, 3, "2024-01-03", 30)>>

DefaultProducts == <<ProductRow(20, 7)>>
DefaultItems == <<ItemRow(1, 1, 1, 1, 2)>>
DefaultLoyaltyRules ==
    <<LoyaltyRule(1, 100, 5, 10, "TRUE"), LoyaltyRule(2, 50, 1, 0, "FALSE")>>
DefaultRfmRules == <<RfmRule(6, 9, "Gold"), RfmRule(7, 8, "Platinum")>>

Files(products, header, items, lrules, rrules) ==
    [customers |-> CustomersCsv, products |-> products, stores |-> StoresCsv,
     promotions |-> PromotionsCsv, sales_header |-> header,
     sales_line_items |-> items, loyalty_rules |-> lrules, rfm_rules |-> rrules]

Start(faults) ==
    /\ io_faults \in faults
    /\ pc = "start"
    /\ data = [none |-> TRUE]
    /\ tr = NotRun
    /\ first = NoRet
    /\ files = [n \in Range(OutputFiles) |-> 0]
    /\ db = [t \in Range(DbTables) |-> "absent"]
    /\ runs = 1
    /\ err = "none"

\* RFM scoring: the transactions vary.
RfmCells ==
    <<<<"2024-01-01", 10>>, <<"2024-01-01", 20>>, <<"2024-01-01", 30>>,
      <<"2024-01-02", 10>>, <<"2024-01-02", 20>>, <<"2024-01-02", 30>>,
      <<"2024-01-03", 10>>, <<"2024-01-03", 20>>, <<"2024-01-03", 30>>,
      <<"not-a-date", 10>>>>

InitRfm ==
    /\ \E len \in 0..MaxTxn : \E c \in Grouped(len) : \E x \in CellChoices(c, RfmCells) :
            csv = Files(DefaultProducts, HeaderTable(c, x, RfmCells), DefaultItems,
                        DefaultLoyaltyRules, DefaultRfmRules)
    /\ Start({FALSE})

SpecRfm == InitRfm /\ [][NextOnce]_vars

\* Segmentation: the rule table varies, over three customers with one
\* transaction each, on different days and of different amounts.
SegmentRules ==
    {RfmRule(6, 9, "Gold"), RfmRule(7, 8, "Platinum"), RfmRule(3, 5, "Bronze"),
     RfmRule(5, 7, "Silver")}

DistinctCells(x, cells) ==
    \A i, j \in DOMAIN x :
        i # j => cells[x[i]][1] # cells[x[j]][1] /\ cells[x[i]][2] # cells[x[j]][2]

InitSegment ==
    /\ \E rules \in SeqsUpTo(SegmentRules, MaxSegRules) :
       \E x \in [1..3 -> 1..9] :
            /\ DistinctCells(x, RfmCells)
            /\ csv = Files(DefaultProducts, HeaderTable(<<1, 2, 3>>, x, RfmCells),
                           DefaultItems, DefaultLoyaltyRules, rules)
    /\ Start({FALSE})

SpecSegment == InitSegment /\ [][NextOnce]_vars

\* Loyalty engine: the rule table varies, over four transaction tables.
LoyaltyRuleChoices ==
    {<<100, 5, 10>>, <<50, 1, 0>>, <<0, 1, 0>>, <<-50, 1, 0>>}

ActiveTexts == {"TRUE", "FALSE", "N"}

LoyaltyTable(r, a) ==
    [i \in DOMAIN r |-> LoyaltyRule(i, r[i][1], r[i][2], r[i][3], a[i])]

LoyaltyHeaders ==
    {<<HeaderRow(1, 1, "2024-01-01", 250), HeaderRow(2, 1, "2024-01-02", 50),
       HeaderRow(3, 2, "2024-01-03", 99)>>,
     <<HeaderRow(1, 1, "2024-01-01", -10), HeaderRow(2, 2, "2024-01-03", 100)>>,
     <<HeaderRow(1, 1, "2024-01-01", 0)>>,
     <<>>}

InitLoyalty ==
    /\ \E len \in 0..MaxRules :
       \E r \in [1..len -> LoyaltyRuleChoices] : \E a \in [1..len -> ActiveTexts] :
       \E header \in LoyaltyHeaders :
            csv = Files(DefaultProducts, header, DefaultItems, LoyaltyTable(r, a),
                        DefaultRfmRules)
    /\ Start({FALSE})

SpecLoyalty == InitLoyalty /\ [][NextOnce]_vars

\* Cleaning and the fact table: the line items and one header's amount vary;
\* product 5 is not in the product table, transaction 9 not in the headers.
ItemChoices == {<<t, p, q>> : t \in {1, 2, 9}, p \in {1, 5}, q \in {-1, 0, 2}}

ItemTable(x) ==
    [i \in DOMAIN x |-> ItemRow(i, x[i][1], x[i][2], IF i = 1 THEN 1 ELSE 9, x[i][3])]

CleanHeaders ==
    {<<HeaderRow(1, 1, "2024-01-01", 10), HeaderRow(2, 2, "2024-01-02", a),
       HeaderRow(3, 3, "2024-01-03", 0)>> : a \in {-10, 20}}

InitClean ==
    /\ \E x \in SeqsUpTo(ItemChoices, MaxItems) :
       \E header \in CleanHeaders :
            csv = Files(DefaultProducts, header, ItemTable(x), DefaultLoyaltyRules,
                        DefaultRfmRules)
    /\ Start({FALSE})

SpecClean == InitClean /\ [][NextOnce]_vars

\* The whole pipeline, run up to MaxRuns times, with and without faults of
\* the disk and of the database.
PipelineHeaders ==
    {DefaultHeader,
     <<HeaderRow(1, 1, "2024-01-01", 250), HeaderRow(2, 2, "not-a-date", -10),
       HeaderRow(3, 2, "2024-01-03", 99)>>,
     <<HeaderRow(1, 1, "2024-01-01", 10)>>}

PipelineRules ==
    {DefaultLoyaltyRules,
     <<LoyaltyRule(1, 100, 5, 10, "TRUE"), LoyaltyRule(2, 50, 1, 0, "N")>>}

Init ==
    /\ \E products \in {<<ProductRow(20, 7)>>, <<ProductRow(-5, -3)>>} :
       \E header \in PipelineHeaders :
       \E lrules \in PipelineRules :
            csv = Files(products, header, DefaultItems, lrules, DefaultRfmRules)
    /\ Start(BOOLEAN)

Spec == Init /\ [][Next]_vars

(***************************** claims: RFM **********************************)
Ranks == {1, 2, 3}

Present(vals) == Range(vals) \ {NaN}

SetMin(S) == CHOOSE x \in S : \A y \in S : x <= y

\* C4: in a completed run every customer with a surviving transaction has
\* ranks R, F, M in {1,2,3} and RFM_Score = R + F + M, an integer in 3..9.
C4_RfmScoreRange ==
    tr.status = "ok" =>
        \A i \in DOMAIN tr.rfm :
            /\ tr.rfm[i].R \in Ranks /\ tr.rfm[i].F \in Ranks /\ tr.rfm[i].M \in Ranks
            /\ tr.rfm[i].RFM_Score = tr.rfm[i].R + tr.rfm[i].F + tr.rfm[i].M
            /\ 3 <= tr.rfm[i].RFM_Score /\ tr.rfm[i].RFM_Score <= 9

\* The population scored by the last call of transform has fewer than three
\* distinct values of one of the metrics.
Degenerate(m) ==
    \E c \in {"recency", "frequency", "monetary"} :
        Cardinality(Present(Column(m, c))) < 3

\* C6: with fewer than 3 distinct values of a metric the scoring does not
\* crash: the run completes and every customer has a rank in {1,2,3} for
\* each metric.
C6_DegenerateBinningFallback ==
    (tr.status # "not_run" /\ tr.error \notin {ErrNonFinite, ErrWrite}
        /\ tr.rfm # <<>> /\ Degenerate(tr.rfm)) =>
        /\ tr.status = "ok"
        /\ \A i \in DOMAIN tr.rfm :
              tr.rfm[i].R \in Ranks /\ tr.rfm[i].F \in Ranks /\ tr.rfm[i].M \in Ranks

\* C10: the tertile ranks respect the order of the metrics over the whole
\* population: a smaller recency never has a smaller R, a smaller frequency
\* or monetary never a larger F or M; the lowest recency has R = 3 and the
\* highest R = 1, the lowest monetary M = 1 and the highest M = 3; of two
\* customers with the same frequency the earlier row has the smaller or
\* equal F.
C10_TertileOrder ==
    tr.status = "ok" =>
        /\ \A a, b \in DOMAIN tr.rfm :
            /\ (tr.rfm[a].recency # NaN /\ tr.rfm[b].recency # NaN
                    /\ tr.rfm[a].recency < tr.rfm[b].recency)
                  => tr.rfm[a].R >= tr.rfm[b].R
            /\ tr.rfm[a].frequency < tr.rfm[b].frequency => tr.rfm[a].F <= tr.rfm[b].F
            /\ tr.rfm[a].monetary < tr.rfm[b].monetary => tr.rfm[a].M <= tr.rfm[b].M
            /\ (tr.rfm[a].frequency = tr.rfm[b].frequency /\ a < b)
                  => tr.rfm[a].F <= tr.rfm[b].F
        /\ \A a \in DOMAIN tr.rfm :
            /\ tr.rfm[a].recency # NaN =>
                /\ tr.rfm[a].recency = SetMin(Present(Column(tr.rfm, "recency")))
                      => tr.rfm[a].R = 3
                /\ tr.rfm[a].recency = SetMax(Present(Column(tr.rfm, "recency")))
                      => tr.rfm[a].R = 1
            /\ tr.rfm[a].monetary = SetMin(Present(Column(tr.rfm, "monetary")))
                  => tr.rfm[a].M = 1
            /\ tr.rfm[a].monetary = SetMax(Present(Column(tr.rfm, "monetary")))
                  => tr.rfm[a].M = 3

\* A completed run over three customers with three recencies and three
\* monetary values, two of them tied on frequency with different F.
C10_Witness ==
    /\ tr.status = "ok"
    /\ Len(tr.rfm) = 3
    /\ Cardinality(Present(Column(tr.rfm, "recency"))) = 3
    /\ Cardinality(Range(Column(tr.rfm, "monetary"))) = 3
    /\ \E a, b \in DOMAIN tr.rfm :
          /\ tr.rfm[a].recency < tr.rfm[b].recency /\ tr.rfm[a].R > tr.rfm[b].R
          /\ tr.rfm[a].monetary > tr.rfm[b].monetary /\ tr.rfm[a].M > tr.rfm[b].M
    /\ \E a, b \in DOMAIN tr.rfm :
          a < b /\ tr.rfm[a].frequency = tr.rfm[b].frequency /\ tr.rfm[a].F < tr.rfm[b].F

(***************************** claims: segmentation *************************)
Matching(rules, score) ==
    {k \in DOMAIN rules :
        rules[k].rfm_score_min <= score /\ score <= rules[k].rfm_score_max}

\* C2: every customer's segment is the segment_name of the first rule, in
\* table order, whose inclusive range contains the customer's RFM_Score, and
\* it is "Unclassified" exactly when no rule's range contains the score.
C2_FirstMatchingSegment ==
    tr.status = "ok" =>
        \A i \in DOMAIN tr.rfm :
            /\ Matching(data.rfm_rules, tr.rfm[i].RFM_Score) # {} =>
                  tr.rfm[i].segment =
                      data.rfm_rules[SetMin(Matching(data.rfm_rules,
                                                     tr.rfm[i].RFM_Score))].segment_name
            /\ (tr.rfm[i].segment = "Unclassified"
                  <=> Matching(data.rfm_rules, tr.rfm[i].RFM_Score) = {})

\* The rules (6,9,Gold), (7,8,Platinum) in that order: a customer with score
\* 7 is Gold, and a customer with a score outside both is Unclassified.
C2_Witness ==
    /\ tr.status = "ok"
    /\ data.rfm_rules = DefaultRfmRules
    /\ \E i \in DOMAIN tr.rfm : tr.rfm[i].RFM_Score = 7 /\ tr.rfm[i].segment = "Gold"
    /\ \E i \in DOMAIN tr.rfm : tr.rfm[i].segment = "Unclassified"

(***************************** claims: fact table ***************************)
\* C3: every row of fact_sales has a product_id of the product table, a
\* transaction_id of a header with total_amount >= 0, and quantity > 0.
C3_FactReferentialIntegrity ==
    tr.status = "ok" =>
        \A i \in DOMAIN tr.ret.fact_sales :
            /\ tr.ret.fact_sales[i].product_id \in Range(Column(csv.products, "product_id"))
            /\ \E h \in DOMAIN csv.sales_header :
                  /\ csv.sales_header[h].transaction_id = tr.ret.fact_sales[i].transaction_id
                  /\ csv.sales_header[h].total_amount >= 0
            /\ tr.ret.fact_sales[i].quantity > 0

\* A run whose line items hold a row of a header dropped for its negative
\* amount, otherwise valid, beside a row that reaches fact_sales.
C3_Witness ==
    /\ tr.status = "ok"
    /\ Len(tr.ret.fact_sales) = 1
    /\ \E i \in DOMAIN csv.sales_line_items : \E h \in DOMAIN csv.sales_header :
          /\ csv.sales_line_items[i].transaction_id = csv.sales_header[h].transaction_id
          /\ csv.sales_header[h].total_amount < 0
          /\ csv.sales_line_items[i].quantity > 0
          /\ csv.sales_line_items[i].product_id
                \in Range(Column(csv.products, "product_id"))

(***************************** claims: loyalty ******************************)
\* The points the documented rule gives: floor(total / threshold) * points
\* per unit + bonus from the threshold on.
Contribution(rule, total) ==
    IF total >= rule.min_spend_threshold
    THEN (total \div rule.min_spend_threshold) * rule.points_per_unit_spend
            + rule.bonus_points
    ELSE 0

DocumentedPoints(rules, total) ==
    SeqSum([k \in DOMAIN rules |->
                IF rules[k].is_active = "TRUE" THEN Contribution(rules[k], total) ELSE 0])

\* C1: with a rule file whose rules flagged TRUE have positive thresholds,
\* every surviving transaction's earned_points is the sum of the
\* contributions of the rules flagged TRUE; the other rules contribute 0.
C1_EarnedPointsSumOfActiveRules ==
    (/\ tr.status # "not_run"
     /\ \A k \in DOMAIN csv.loyalty_rules :
            csv.loyalty_rules[k].is_active = "TRUE"
                => csv.loyalty_rules[k].min_spend_threshold > 0) =>
        \A i \in DOMAIN tr.sales_header :
            tr.sales_header[i].earned_points =
                DocumentedPoints(csv.loyalty_rules, tr.sales_header[i].total_amount)

\* A rule the engine applies (its is_active cell is the text TRUE in the
\* frame read from the file) with min_spend_threshold <= 0.
ActiveRuleWithBadThreshold ==
    \E k \in DOMAIN data.loyalty_rules :
        /\ data.loyalty_rules[k].is_active = "TRUE"
        /\ data.loyalty_rules[k].min_spend_threshold <= 0

\* C5: when an active rule has min_spend_threshold <= 0, transform fails
\* before computing points: it does not complete, it does not fail by
\* converting the quotient of the division, and no transaction has points.
C5_BadThresholdIsConfigurationError ==
    (tr.status # "not_run" /\ ActiveRuleWithBadThreshold) =>
        /\ tr.status = "raised"
        /\ tr.error # ErrNonFinite
        /\ \A i \in DOMAIN tr.sales_header :
              "earned_points" \in DOMAIN tr.sales_header[i]
                  => tr.sales_header[i].earned_points = 0

PointsOfCustomer(sh, c) ==
    SeqSum(Column(SelectSeq(sh, LAMBDA r : r.customer_id = c), "earned_points"))

\* C9: after a completed run every customer's total_loyalty_points is the
\* sum of earned_points over that customer's surviving transactions, 0 and
\* not null without any, whatever the input column held, and is >= 0.
C9_TotalLoyaltyPoints ==
    tr.status = "ok" =>
        \A i \in DOMAIN tr.ret.customers :
            /\ tr.ret.customers[i].total_loyalty_points # NaN
            /\ tr.ret.customers[i].total_loyalty_points =
                  PointsOfCustomer(tr.sales_header, tr.ret.customers[i].customer_id)
            /\ tr.ret.customers[i].total_loyalty_points >= 0

(***************************** claims: pipeline *****************************)
\* C7: when the first run has ended, either all six files are written and
\* all database tables are loaded, or no file is written and no table exists.
C7_AllOrNothing ==
    (runs = 1 /\ pc \in {"done", "failed"}) =>
        \/ /\ \A n \in Range(OutputFiles) : files[n] = 1
           /\ \A t \in Range(DbTables) : db[t] = "loaded"
        \/ /\ \A n \in Range(OutputFiles) : files[n] = 0
           /\ \A t \in Range(DbTables) : db[t] = "absent"

\* C8: once a call of transform has returned its tables, every later call
\* on the same input (read again from the same files, or the dict the first
\* call cleaned in place) that the disk does not fail returns the same
\* customers, products, stores, promotions, fact_sales and
\* customer_loyalty_segments.
C8_TransformIdempotent ==
    (first # NoRet /\ tr.status # "not_run" /\ tr.error # ErrWrite) =>
        (tr.status = "ok" /\ tr.ret = first)

\* A second call on the dict cleaned in place, whose product had a negative
\* price and stock and whose headers had an unparseable date, returns the
\* tables of the first call.
C8_Witness ==
    /\ runs = 2
    /\ tr.status = "ok"
    /\ tr.reapplied
    /\ tr.ret = first
    /\ csv.products[1].unit_price < 0
    /\ \E i \in DOMAIN csv.sales_header :
          csv.sales_header[i].transaction_date = Str("not-a-date")

====
